---- MODULE Spec2Model ----
(***************************************************************************)
(* Model of src/server/auth/handlers/register.ts: the OAuth dynamic client *)
(* registration handler.  clientRegistrationHandler builds a router whose  *)
(* POST handler runs register(req.body) and answers 201, 400 or 500.       *)
(*                                                                         *)
(* JavaScript objects are modelled as TLA+ functions from key names to     *)
(* values, so that the object spread of line 50 and the `"error" in        *)
(* result` test of line 64 keep their meaning.  The value `undefined` is   *)
(* the string Undefined.                                                   *)
(***************************************************************************)
EXTENDS Integers, Sequences, FiniteSets, TLC

\* ------------------------------------------------------------------ bounds
MaxRequests == 2
MaxNowMs == 1000
ClockStepMs == 500

\* ------------------------------------------------------- program constants
\* line 21: 30 * 24 * 60 * 60
DEFAULT_CLIENT_SECRET_EXPIRY_SECONDS == 2592000
MsPerSecond == 1000

Undefined == "undefined"
None == [none |-> TRUE]

Reqs == 1..MaxRequests

\* ---------------------------------------------------------- input domains
\* Date.now() readings, in milliseconds.
ClockReadings == {t \in 0..MaxNowMs : t % ClockStepMs = 0}

\* The values crypto.randomUUID() may return.  A version-4 UUID carries 122
\* random bits; the handler relies on no value being returned twice, and the
\* model draws each value at most once (see RegisterValid).
UUIDs == {"uuid-a", "uuid-b"}

\* The values crypto.randomBytes(32).toString('hex') may return.
HexSecrets == {"5ec2e7"}

\* Identifiers a store may assign itself when it replaces client_id.
StoreAssignedIds == {"db-1"}

\* Errors a store's registerClient may raise.
StoreErrors == {"ECONNREFUSED", "duplicate client_id"}

\* ClientRegistrationHandlerOptions (lines 7-19): whether the store has a
\* registerClient method, and clientSecretExpirySeconds (set or left out).
Options ==
    [hasRegisterClient : BOOLEAN, expirySet : {TRUE}, expiry : {-60, 0, 3600}]
    \cup [hasRegisterClient : BOOLEAN, expirySet : {FALSE}, expiry : {0}]

\* Request bodies (req.body after express.json()).
BodyNone == [redirect_uris |-> "https://example.com/cb",
             token_endpoint_auth_method |-> "none"]
BodyPost == [redirect_uris |-> "https://example.com/cb",
             token_endpoint_auth_method |-> "client_secret_post"]
BodyMissingUris == [token_endpoint_auth_method |-> "none"]
BodyExtraKeys == [redirect_uris |-> "https://example.com/cb",
                  client_id |-> "chosen-by-client",
                  error |-> "x"]
BodyBadUris == [redirect_uris |-> "not a list of urls"]
Bodies ==
    {BodyNone, BodyPost, BodyMissingUris, BodyExtraKeys, BodyBadUris}

\* ----------------------------------------------------------- JS objects
Has(obj, key) == key \in DOMAIN obj

Get(obj, key) == IF key \in DOMAIN obj THEN obj[key] ELSE Undefined

\* Variant of Spread: on a shared key the first object's value is kept.
Spread_FirstWins(a, b) ==
    [k \in DOMAIN a \cup DOMAIN b |-> IF k \in DOMAIN a THEN a[k] ELSE b[k]]

\* { ...a, ...b }: b's keys override a's.
Spread(a, b) ==
    [k \in DOMAIN a \cup DOMAIN b |-> IF k \in DOMAIN b THEN b[k] ELSE a[k]]

\* The keys that hold numbers (lines 53-54); every other value is a string.
NumericKeys == {"client_id_issued_at", "client_secret_expires_at"}

\* obj[key] === undefined (a missing key reads as undefined as well).
IsUndefined(obj, key) ==
    \/ key \notin DOMAIN obj
    \/ key \notin NumericKeys /\ obj[key] = Undefined

Restrict(obj, keys) == [k \in DOMAIN obj \cap keys |-> obj[k]]

\* ------------------------------------------------------------ validator
\* OAuthClientMetadataSchema (shared/auth.ts): the fields the schema knows;
\* redirect_uris is required, unknown keys are dropped from the result.
SchemaKeys == {"redirect_uris", "token_endpoint_auth_method"}

SchemaAccepts(requestBody) ==
    /\ Has(requestBody, "redirect_uris")
    /\ requestBody.redirect_uris = "https://example.com/cb"

\* The error parse throws for a body it does not accept.
SchemaError(requestBody) ==
    IF ~Has(requestBody, "redirect_uris")
    THEN "ZodError: redirect_uris: Required"
    ELSE "ZodError: redirect_uris: Expected array, received string"

\* OAuthClientMetadataSchema.parse(requestBody): the normalized metadata, or
\* a thrown error.
SchemaParse(requestBody) ==
    IF SchemaAccepts(requestBody)
    THEN [ok |-> TRUE, value |-> Restrict(requestBody, SchemaKeys)]
    ELSE [ok |-> FALSE, error |-> SchemaError(requestBody)]

\* ---------------------------------------------------------- construction
\* Variant of clientRegistrationHandler: the store is not checked.
clientRegistrationHandler_Unchecked(opts) ==
    [router |-> "ready",
     clientSecretExpirySeconds |->
         IF opts.expirySet THEN opts.expiry
         ELSE DEFAULT_CLIENT_SECRET_EXPIRY_SECONDS]

\* Variant of clientRegistrationHandler: a lifetime left out is read as 0.
clientRegistrationHandler_NoDefault(opts) ==
    IF ~opts.hasRegisterClient
    THEN [router |-> "threw", clientSecretExpirySeconds |-> 0]
    ELSE [router |-> "ready", clientSecretExpirySeconds |-> opts.expiry]

\* clientRegistrationHandler (lines 23-26, 75): throws when the store has no
\* registerClient; otherwise returns the router, with the lifetime defaulted.
clientRegistrationHandler(opts) ==
    IF ~opts.hasRegisterClient
    THEN [router |-> "threw", clientSecretExpirySeconds |-> 0]
    ELSE [router |-> "ready",
          clientSecretExpirySeconds |->
              IF opts.expirySet THEN opts.expiry
              ELSE DEFAULT_CLIENT_SECRET_EXPIRY_SECONDS]

\* ----------------------------------------------------- credential issuing
\* Variant of ClientSecret: a secret only for a declared method.
ClientSecret_DeclaredOnly(clientMetadata, randomHex) ==
    IF /\ Has(clientMetadata, "token_endpoint_auth_method")
       /\ clientMetadata.token_endpoint_auth_method # "none"
    THEN randomHex
    ELSE Undefined

\* lines 44-46
ClientSecret(clientMetadata, randomHex) ==
    IF Get(clientMetadata, "token_endpoint_auth_method") # "none"
    THEN randomHex
    ELSE Undefined

\* line 47: Math.floor(Date.now() / 1000)
ClientIdIssuedAt(nowMs) == nowMs \div MsPerSecond

\* Variant of ClientSecretExpiresAt: the lifetime alone, not added to the
\* issuance time.
ClientSecretExpiresAt_LifetimeOnly(clientIdIssuedAt, expirySeconds) ==
    IF expirySeconds > 0 THEN expirySeconds ELSE 0

\* Variant of ClientSecretExpiresAt: >= in place of >.
ClientSecretExpiresAt_ZeroAdds(clientIdIssuedAt, expirySeconds) ==
    IF expirySeconds >= 0 THEN clientIdIssuedAt + expirySeconds ELSE 0

\* Variant of ClientSecretExpiresAt: != 0 in place of > 0.
ClientSecretExpiresAt_NonZero(clientIdIssuedAt, expirySeconds) ==
    IF expirySeconds # 0 THEN clientIdIssuedAt + expirySeconds ELSE 0

\* line 54
ClientSecretExpiresAt(clientIdIssuedAt, expirySeconds) ==
    IF expirySeconds > 0 THEN clientIdIssuedAt + expirySeconds ELSE 0

\* Variant of ClientInfo: client_id derived from the metadata instead of
\* taken from crypto.randomUUID().
ClientInfo_IdFromMetadata(metadata, uuid, hex, nowMs, expiry) ==
    Spread(metadata,
           [client_id |-> metadata.redirect_uris,
            client_secret |-> ClientSecret(metadata, hex),
            client_id_issued_at |-> ClientIdIssuedAt(nowMs),
            client_secret_expires_at |->
                ClientSecretExpiresAt(ClientIdIssuedAt(nowMs), expiry)])

\* Variant of ClientInfo: one client_id for every record.
ClientInfo_FixedId(metadata, uuid, hex, nowMs, expiry) ==
    Spread(metadata,
           [client_id |-> "00000000-0000-0000-0000-000000000000",
            client_secret |-> ClientSecret(metadata, hex),
            client_id_issued_at |-> ClientIdIssuedAt(nowMs),
            client_secret_expires_at |->
                ClientSecretExpiresAt(ClientIdIssuedAt(nowMs), expiry)])

\* lines 43-55: the record handed to the store.
ClientInfo(clientMetadata, randomUUID, randomHex, nowMs, expirySeconds) ==
    Spread(clientMetadata,
           [client_id |-> randomUUID,
            client_secret |-> ClientSecret(clientMetadata, randomHex),
            client_id_issued_at |-> ClientIdIssuedAt(nowMs),
            client_secret_expires_at |->
                ClientSecretExpiresAt(ClientIdIssuedAt(nowMs), expirySeconds)])

\* line 40
RegistrationError(description) ==
    [error |-> "invalid_client_metadata", error_description |-> description]

\* ------------------------------------------------------------- responses
\* res.json(obj): JSON.stringify leaves out the keys whose value is undefined.
Json(obj) == [k \in {key \in DOMAIN obj : ~IsUndefined(obj, key)} |-> obj[k]]

\* Variant of OnFulfilled: 201 whatever the result.
OnFulfilled_AlwaysCreated(result) == [status |-> 201, json |-> Json(result)]

\* lines 63-68: the fulfilment callback.
OnFulfilled(result) ==
    IF Has(result, "error")
    THEN [status |-> 400, json |-> Json(result)]
    ELSE [status |-> 201, json |-> Json(result)]

\* Variant of OnRejected: the store's error turned into a registration error.
OnRejected_AsRegistrationError(error) ==
    [status |-> 400, json |-> RegistrationError(error)]

\* Variant of OnRejected: the error's text sent as the body.
OnRejected_LeaksError(error) == [status |-> 500, text |-> error]

\* lines 69-72: the rejection callback's answer.
OnRejected(error) == [status |-> 500, text |-> "Internal Server Error"]

\* ----------------------------------------------------------------- store
\* OAuthRegisteredClientsStore.registerClient (clients.ts): the records a
\* successful call may return for the record it was given: the record itself,
\* the record under a store-assigned client_id, or the record with a
\* storage-specific field added.
StoreReturns(info) ==
    {info}
    \cup {Spread(info, [client_id |-> id]) : id \in StoreAssignedIds}
    \cup {Spread(info, [error |-> "last sync failed"])}

\* The store's side of client_id uniqueness: it keeps the client_id it was
\* given, or assigns one that it has not accepted before.
StoreAccepts(accepted, info, returned) ==
    \/ returned.client_id = info.client_id
    \/ returned.client_id \notin accepted

\* lines 57-58: `clientInfo = await registerClient(clientInfo); return
\* clientInfo` - register returns the store's record, not the one it built.
RegisterResult(built, returned) == returned

\* ----------------------------------------------------------------- state
VARIABLES
    options,      \* the options clientRegistrationHandler was called with
    handler,      \* what clientRegistrationHandler(options) produced
    pc,           \* per request: "start", "persisting", "settled", "answered"
    reqBody,      \* per request: req.body, once the request has arrived
    validated,    \* per request: the outcome of OAuthClientMetadataSchema.parse
    clientInfo,   \* per request: the record built at lines 49-55
    promise,      \* per request: how the promise of register(req.body) settled
    response,     \* per request: what was sent on res
    storeCalls,   \* the calls made to clientsStore.registerClient, in order
    storedIds,    \* the client_ids the store has accepted
    uuidsDrawn,   \* the values crypto.randomUUID() has returned so far
    reads,        \* per request: what randomUUID(), randomBytes() and
                  \* Date.now() returned to it (lines 43, 45, 47)
    consoleLog    \* what console.error was given, in order

vars == <<options, handler, pc, reqBody, validated, clientInfo, promise, response,
          storeCalls, storedIds, uuidsDrawn, reads, consoleLog>>

Init ==
    /\ options \in Options
    /\ handler = clientRegistrationHandler(options)
    /\ pc = [r \in Reqs |-> "start"]
    /\ reqBody = [r \in Reqs |-> None]
    /\ validated = [r \in Reqs |-> None]
    /\ clientInfo = [r \in Reqs |-> None]
    /\ promise = [r \in Reqs |-> None]
    /\ response = [r \in Reqs |-> None]
    /\ storeCalls = <<>>
    /\ storedIds = {}
    /\ uuidsDrawn = {}
    /\ reads = [r \in Reqs |-> None]
    /\ consoleLog = <<>>

\* Variant of RegisterInvalid: the validator's error is not caught.
RegisterInvalid_Uncaught(r, requestBody) ==
    /\ handler.router = "ready"
    /\ pc[r] = "start"
    /\ ~SchemaParse(requestBody).ok
    /\ reqBody' = [reqBody EXCEPT ![r] = requestBody]
    /\ validated' = [validated EXCEPT ![r] = SchemaParse(requestBody)]
    /\ promise' = [promise EXCEPT ![r] =
           [state |-> "rejected", reason |-> SchemaParse(requestBody).error]]
    /\ pc' = [pc EXCEPT ![r] = "settled"]
    /\ UNCHANGED <<options, handler, clientInfo, response, storeCalls,
                   storedIds, uuidsDrawn, reads, consoleLog>>

\* register, lines 36-41: the body fails validation; the promise of register
\* is fulfilled with the error object.
RegisterInvalid(r, requestBody) ==
    /\ handler.router = "ready"
    /\ pc[r] = "start"
    /\ ~SchemaParse(requestBody).ok
    /\ reqBody' = [reqBody EXCEPT ![r] = requestBody]
    /\ validated' = [validated EXCEPT ![r] = SchemaParse(requestBody)]
    /\ promise' = [promise EXCEPT ![r] =
           [state |-> "fulfilled",
            value |-> RegistrationError(SchemaParse(requestBody).error)]]
    /\ pc' = [pc EXCEPT ![r] = "settled"]
    /\ UNCHANGED <<options, handler, clientInfo, response, storeCalls, storedIds,
                   uuidsDrawn, reads, consoleLog>>

\* Variant of RegisterValid: the issuance time is kept in a variable shared
\* by all requests, set by the first of them.
RegisterValid_SharedClock(r, requestBody, randomUUID, randomHex, nowMs) ==
    /\ handler.router = "ready"
    /\ pc[r] = "start"
    /\ SchemaParse(requestBody).ok
    /\ randomUUID \notin uuidsDrawn
    /\ uuidsDrawn' = uuidsDrawn \cup {randomUUID}
    /\ reads' = [reads EXCEPT ![r] =
           [uuid |-> randomUUID, hex |-> randomHex, nowMs |-> nowMs]]
    /\ LET shared == IF storeCalls = <<>> THEN nowMs
                     ELSE reads[storeCalls[1].req].nowMs
           info == ClientInfo(SchemaParse(requestBody).value, randomUUID,
                              randomHex, shared,
                              handler.clientSecretExpirySeconds)
       IN /\ clientInfo' = [clientInfo EXCEPT ![r] = info]
          /\ storeCalls' = Append(storeCalls, [req |-> r, clientInfo |-> info])
    /\ reqBody' = [reqBody EXCEPT ![r] = requestBody]
    /\ validated' = [validated EXCEPT ![r] = SchemaParse(requestBody)]
    /\ pc' = [pc EXCEPT ![r] = "persisting"]
    /\ UNCHANGED <<options, handler, promise, response, storedIds, consoleLog>>

\* register, lines 36-57: the body passes validation, the record is built and
\* clientsStore.registerClient is called with it; register awaits the store.
RegisterValid(r, requestBody, randomUUID, randomHex, nowMs) ==
    /\ handler.router = "ready"
    /\ pc[r] = "start"
    /\ SchemaParse(requestBody).ok
    /\ randomUUID \notin uuidsDrawn
    /\ uuidsDrawn' = uuidsDrawn \cup {randomUUID}
    /\ reads' = [reads EXCEPT ![r] =
           [uuid |-> randomUUID, hex |-> randomHex, nowMs |-> nowMs]]
    /\ LET info == ClientInfo(SchemaParse(requestBody).value, randomUUID,
                              randomHex, nowMs,
                              handler.clientSecretExpirySeconds)
       IN /\ clientInfo' = [clientInfo EXCEPT ![r] = info]
          /\ storeCalls' = Append(storeCalls, [req |-> r, clientInfo |-> info])
    /\ reqBody' = [reqBody EXCEPT ![r] = requestBody]
    /\ validated' = [validated EXCEPT ![r] = SchemaParse(requestBody)]
    /\ pc' = [pc EXCEPT ![r] = "persisting"]
    /\ UNCHANGED <<options, handler, promise, response, storedIds, consoleLog>>

\* lines 57-58: registerClient returns a record, which register returns.
\* The store accepts a record only under a client_id it has not accepted yet.
StoreResolves(r) ==
    /\ pc[r] = "persisting"
    /\ \E returned \in StoreReturns(clientInfo[r]) :
          /\ StoreAccepts(storedIds, clientInfo[r], returned)
          /\ storedIds' = storedIds \cup {returned.client_id}
          /\ promise' = [promise EXCEPT ![r] =
                 [state |-> "fulfilled",
                  value |-> RegisterResult(clientInfo[r], returned)]]
    /\ pc' = [pc EXCEPT ![r] = "settled"]
    /\ UNCHANGED <<options, handler, reqBody, validated, clientInfo, response,
                   storeCalls, uuidsDrawn, reads, consoleLog>>

\* Variant of StoreRejects: a failed call is made again.
StoreRejects_Retries(r, error) ==
    /\ pc[r] = "persisting"
    /\ storeCalls' = Append(storeCalls,
                            [req |-> r, clientInfo |-> clientInfo[r]])
    /\ UNCHANGED <<options, handler, pc, reqBody, validated, clientInfo, promise,
                   response, storedIds, uuidsDrawn, reads, consoleLog>>

\* line 57: registerClient fails; the promise of register is rejected.
StoreRejects(r, error) ==
    /\ pc[r] = "persisting"
    /\ promise' = [promise EXCEPT ![r] = [state |-> "rejected", reason |-> error]]
    /\ pc' = [pc EXCEPT ![r] = "settled"]
    /\ UNCHANGED <<options, handler, reqBody, validated, clientInfo, response,
                   storeCalls, storedIds, uuidsDrawn, reads, consoleLog>>

\* Variant of RespondFulfilled: the request is left open after the answer.
RespondFulfilled_StaysOpen(r) ==
    /\ pc[r] = "settled"
    /\ promise[r].state = "fulfilled"
    /\ response' = [response EXCEPT ![r] = OnFulfilled(promise[r].value)]
    /\ UNCHANGED <<options, handler, pc, reqBody, validated, clientInfo,
                   promise, storeCalls, storedIds, uuidsDrawn, reads, consoleLog>>

\* lines 63-68: the promise was fulfilled; answer 400 or 201.
RespondFulfilled(r) ==
    /\ pc[r] = "settled"
    /\ promise[r].state = "fulfilled"
    /\ response' = [response EXCEPT ![r] = OnFulfilled(promise[r].value)]
    /\ pc' = [pc EXCEPT ![r] = "answered"]
    /\ UNCHANGED <<options, handler, reqBody, validated, clientInfo, promise,
                   storeCalls, storedIds, uuidsDrawn, reads, consoleLog>>

\* Variant of RespondRejected: no rejection callback is registered.
RespondRejected_NoCallback(r) ==
    /\ pc[r] = "settled"
    /\ promise[r].state = "rejected"
    /\ UNCHANGED vars

\* lines 69-72: the promise was rejected; log the error and answer 500.
RespondRejected(r) ==
    /\ pc[r] = "settled"
    /\ promise[r].state = "rejected"
    /\ consoleLog' = Append(consoleLog, promise[r].reason)
    /\ response' = [response EXCEPT ![r] = OnRejected(promise[r].reason)]
    /\ pc' = [pc EXCEPT ![r] = "answered"]
    /\ UNCHANGED <<options, handler, reqBody, validated, clientInfo, promise,
                   storeCalls, storedIds, uuidsDrawn, reads>>

Next ==
    \/ \E r \in Reqs, b \in Bodies : RegisterInvalid(r, b)
    \/ \E r \in Reqs, b \in Bodies, u \in UUIDs, h \in HexSecrets,
          t \in ClockReadings : RegisterValid(r, b, u, h, t)
    \/ \E r \in Reqs : StoreResolves(r)
    \/ \E r \in Reqs, e \in StoreErrors : StoreRejects(r, e)
    \/ \E r \in Reqs : RespondFulfilled(r)
    \/ \E r \in Reqs : RespondRejected(r)

Spec == Init /\ [][Next]_vars

\* lines 63-72: the callbacks given to then() run once the promise of
\* register has settled (the event loop runs every queued callback).  The
\* store owes no answer, and no request has to arrive.
FairSpec ==
    /\ Spec
    /\ \A r \in Reqs : WF_vars(RespondFulfilled(r))
    /\ \A r \in Reqs : WF_vars(RespondRejected(r))

\* ------------------------------------------------------------ properties
\* Vocabulary of the properties below.
CallIndexes == DOMAIN storeCalls

\* The validated metadata of the request that made call i.
MetadataOfCall(i) == validated[storeCalls[i].req].value

AuthMethodOfCall(i) == Get(MetadataOfCall(i), "token_endpoint_auth_method")

HasClientSecret(info) == ~IsUndefined(info, "client_secret")

Lifetime == handler.clientSecretExpirySeconds

\* C1: every record handed to registerClient carries a client_secret if and
\* only if the validated metadata's token_endpoint_auth_method is not 'none'
\* (an undeclared method counts as not 'none').
C1_SecretIffNotNone ==
    \A i \in CallIndexes :
        /\ validated[storeCalls[i].req].ok
        /\ HasClientSecret(storeCalls[i].clientInfo)
               <=> AuthMethodOfCall(i) # "none"

\* C1 witness: one call for method 'none' without a secret and one call for
\* an undeclared method with a secret.
C1_Witness ==
    \E i, j \in CallIndexes :
        /\ AuthMethodOfCall(i) = "none"
        /\ ~HasClientSecret(storeCalls[i].clientInfo)
        /\ ~Has(MetadataOfCall(j), "token_endpoint_auth_method")
        /\ HasClientSecret(storeCalls[j].clientInfo)

\* C2: with method 'none' and a positive lifetime, the issued record has no
\* client_secret and its client_secret_expires_at is absent or 0.
C2_NoneHasNoExpiry ==
    \A i \in CallIndexes :
        (AuthMethodOfCall(i) = "none" /\ Lifetime > 0)
        => /\ ~HasClientSecret(storeCalls[i].clientInfo)
           /\ \/ ~Has(storeCalls[i].clientInfo, "client_secret_expires_at")
              \/ storeCalls[i].clientInfo.client_secret_expires_at = 0

\* C3: with a secret issued and a lifetime L > 0, client_secret_expires_at =
\* client_id_issued_at + L, for every issuance time.
C3_ExpiryIsIssuedPlusLifetime ==
    \A i \in CallIndexes :
        (HasClientSecret(storeCalls[i].clientInfo) /\ Lifetime > 0)
        => storeCalls[i].clientInfo.client_secret_expires_at
               = storeCalls[i].clientInfo.client_id_issued_at + Lifetime

\* C3 witness: a secret issued under a positive lifetime at a time of at
\* least one whole second.
C3_Witness ==
    \E i \in CallIndexes :
        /\ HasClientSecret(storeCalls[i].clientInfo)
        /\ Lifetime > 0
        /\ storeCalls[i].clientInfo.client_id_issued_at > 0

\* C4: with clientSecretExpirySeconds = 0, every issued record has
\* client_secret_expires_at = 0, whatever the time and the method.
C4_ZeroLifetimeNeverExpires ==
    (handler.router = "ready" /\ Lifetime = 0)
    => \A i \in CallIndexes :
           storeCalls[i].clientInfo.client_secret_expires_at = 0

\* C4 witness: lifetime 0, two records issued after second 0, one with and
\* one without a secret.
C4_Witness ==
    /\ handler.router = "ready"
    /\ Lifetime = 0
    /\ \E i, j \in CallIndexes :
           /\ storeCalls[i].clientInfo.client_id_issued_at > 0
           /\ storeCalls[j].clientInfo.client_id_issued_at > 0
           /\ HasClientSecret(storeCalls[i].clientInfo)
           /\ ~HasClientSecret(storeCalls[j].clientInfo)

\* Request r passed, or failed, validation.
Validated(r) == pc[r] # "start" /\ validated[r].ok

Invalid(r) == pc[r] # "start" /\ ~validated[r].ok

CallsOf(r) == {i \in CallIndexes : storeCalls[i].req = r}

\* register's promise for r was fulfilled by the store's record, or rejected
\* by the store's error.
StoreSucceeded(r) ==
    Validated(r) /\ pc[r] \in {"settled", "answered"}
                 /\ promise[r].state = "fulfilled"

StoreFailed(r) ==
    Validated(r) /\ pc[r] \in {"settled", "answered"}
                 /\ promise[r].state = "rejected"

\* C5: a request whose metadata fails validation makes no registerClient
\* call; its outcome is a RegistrationError with error code
\* 'invalid_client_metadata', answered with status 400.
C5_InvalidNeverReachesStore ==
    \A r \in Reqs :
        Invalid(r)
        => /\ CallsOf(r) = {}
           /\ promise[r].state = "fulfilled"
           /\ promise[r].value = RegistrationError(validated[r].error)
           /\ promise[r].value.error = "invalid_client_metadata"
           /\ pc[r] = "answered"
                  => response[r] = [status |-> 400, json |-> promise[r].value]

\* C5 witness: an invalid request has been answered while the store was
\* called for another request.
C5_Witness ==
    \E r \in Reqs :
        Invalid(r) /\ pc[r] = "answered" /\ storeCalls # <<>>

\* C6: the number of registerClient calls equals the number of requests that
\* passed validation: exactly one call per such request, none for the others,
\* also after a store failure.
C6_OneStoreCallPerValidated ==
    /\ \A r \in Reqs :
           Cardinality(CallsOf(r)) = IF Validated(r) THEN 1 ELSE 0
    /\ Len(storeCalls) = Cardinality({r \in Reqs : Validated(r)})

\* C6 witness: every request passed validation, one store call failed and
\* was answered, another succeeded.
C6_Witness ==
    /\ \A r \in Reqs : Validated(r)
    /\ \E r, q \in Reqs :
           StoreFailed(r) /\ pc[r] = "answered" /\ StoreSucceeded(q)

\* C7: when validation succeeds and registerClient returns, the request is
\* answered 201 with exactly the record the store returned, for every record
\* the store may return.
C7_StoreSuccessIsCreated ==
    \A r \in Reqs :
        (StoreSucceeded(r) /\ pc[r] = "answered")
        => response[r] = [status |-> 201, json |-> Json(promise[r].value)]

\* C8: when validation succeeds and registerClient fails, the request is
\* answered 500 without a structured body, never 400 and never 201.
C8_StoreFailureIsInternalError ==
    \A r \in Reqs :
        (StoreFailed(r) /\ pc[r] = "answered")
        => /\ response[r] = [status |-> 500, text |-> "Internal Server Error"]
           /\ response[r].status \notin {400, 201}
           /\ ~Has(response[r], "json")

\* C8 witness: a request whose store call failed has been answered.
C8_Witness ==
    \E r \in Reqs : StoreFailed(r) /\ pc[r] = "answered"

C10_FreshClientIdPerCall ==
    \A i, j \in CallIndexes :
        i < j => storeCalls[i].clientInfo.client_id
                    # storeCalls[j].clientInfo.client_id

\* C10 witness: two registerClient calls were made for the same metadata.
C10_Witness ==
    \E i, j \in CallIndexes :
        /\ i < j
        /\ storeCalls[i].req # storeCalls[j].req
        /\ MetadataOfCall(i) = MetadataOfCall(j)

\* C11: constructed with a store that has no registerClient, the handler
\* throws at once; no router exists, no request is processed, no store call
\* is made and no outcome is produced.
C11_NoRegisterClientNoHandler ==
    ~options.hasRegisterClient
    => /\ handler.router = "threw"
       /\ \A r \in Reqs : pc[r] = "start" /\ response[r] = None
                            /\ promise[r] = None
       /\ storeCalls = <<>>

\* C11 witness: construction with a store lacking registerClient has thrown.
C11_Witness ==
    ~options.hasRegisterClient /\ handler.router = "threw"

\* C12: constructed without clientSecretExpirySeconds, the lifetime is
\* 2592000 seconds (30 days) for every request: each record with a secret has
\* client_secret_expires_at - client_id_issued_at = 2592000.
C12_DefaultLifetimeIsThirtyDays ==
    (options.hasRegisterClient /\ ~options.expirySet)
    => /\ Lifetime = 30 * 24 * 60 * 60
       /\ \A i \in CallIndexes :
              HasClientSecret(storeCalls[i].clientInfo)
              => storeCalls[i].clientInfo.client_secret_expires_at
                     - storeCalls[i].clientInfo.client_id_issued_at = 2592000

\* C12 witness: under the default, two requests were issued secrets, at
\* different seconds.
C12_Witness ==
    /\ options.hasRegisterClient /\ ~options.expirySet
    /\ \E i, j \in CallIndexes :
           /\ HasClientSecret(storeCalls[i].clientInfo)
           /\ HasClientSecret(storeCalls[j].clientInfo)
           /\ storeCalls[i].clientInfo.client_id_issued_at
                  # storeCalls[j].clientInfo.client_id_issued_at

\* C13: the answer to an unexpected failure carries no detail of it: two
\* requests that differ in the error the store raised get the same answer
\* (status 500 and body), and the error itself is in the log only.
C13_FailureDetailOnlyInLog ==
    /\ \A r, q \in Reqs :
           (StoreFailed(r) /\ pc[r] = "answered"
               /\ StoreFailed(q) /\ pc[q] = "answered")
           => response[r] = response[q]
    /\ \A r \in Reqs :
           (StoreFailed(r) /\ pc[r] = "answered")
           => /\ response[r].text \notin StoreErrors
              /\ \E i \in DOMAIN consoleLog : consoleLog[i] = promise[r].reason

\* C13 witness: two requests with the same body, failed by the store with
\* different errors, have both been answered.
C13_Witness ==
    \E r, q \in Reqs :
        /\ reqBody[r] = reqBody[q]
        /\ StoreFailed(r) /\ pc[r] = "answered"
        /\ StoreFailed(q) /\ pc[q] = "answered"
        /\ promise[r].reason # promise[q].reason

\* The calls made for request r after the step.
CallsOfNext(r) == {i \in DOMAIN storeCalls' : storeCalls'[i].req = r}

Unanswered(resp) == Has(resp, "none")

\* What a step may do to request r: nothing, or one move along
\* start -> (settled | persisting -> settled) -> answered.
StepOfRequest(r) ==
    \/ /\ pc'[r] = pc[r]
       /\ response'[r] = response[r]
       /\ promise'[r] = promise[r]
       /\ CallsOfNext(r) = CallsOf(r)
    \/ /\ pc[r] = "start" /\ pc'[r] = "settled"
       /\ ~validated'[r].ok
       /\ CallsOfNext(r) = {}
       /\ Unanswered(response'[r])
    \/ /\ pc[r] = "start" /\ pc'[r] = "persisting"
       /\ validated'[r].ok
       /\ CallsOf(r) = {} /\ Cardinality(CallsOfNext(r)) = 1
       /\ Unanswered(response'[r])
    \/ /\ pc[r] = "persisting" /\ pc'[r] = "settled"
       /\ CallsOfNext(r) = CallsOf(r)
       /\ Unanswered(response'[r])
    \/ /\ pc[r] = "settled" /\ pc'[r] = "answered"
       /\ promise'[r] = promise[r]
       /\ CallsOfNext(r) = CallsOf(r)
       /\ Unanswered(response[r])
       /\ response'[r].status \in {201, 400, 500}

\* C14: every request moves along the one line validate -> issue -> persist
\* -> answer, gets exactly one of the answers 201, 400, 500, and once
\* answered takes no further step: no second answer, no further store call.
C14_LinearAndTerminal ==
    [][\A r \in Reqs : StepOfRequest(r)]_vars

\* C14 witness: every request has been answered, one 201 and one 500.
C14_Witness ==
    /\ \A r \in Reqs : pc[r] = "answered"
    /\ \E r, q \in Reqs : response[r].status = 201 /\ response[q].status = 500

\* C15: a request whose store call has completed (returned or failed) is
\* eventually answered, and so is one that failed validation; a request
\* whose store call has not completed has no answer, however long it waits.
C15_SettledIsEventuallyAnswered ==
    /\ \A r \in Reqs : []<>(pc[r] # "settled")
    /\ [][\A r \in Reqs : pc[r] = "settled"
                               => pc'[r] \in {"settled", "answered"}]_vars
    /\ [](\A r \in Reqs : pc[r] = "persisting" => Unanswered(response[r]))

\* C15 witness: one request was answered after its store call failed while
\* another still waits for the store.
C15_Witness ==
    \E r, q \in Reqs :
        /\ StoreFailed(r) /\ pc[r] = "answered"
        /\ pc[q] = "persisting" /\ Unanswered(response[q])

\* Not a property of the handler: a request waiting for the store is
\* eventually answered.  It fails, as the handler has no timeout.
C15_PersistingIsEventuallyAnswered ==
    \A r \in Reqs : (pc[r] = "persisting") ~> (pc[r] = "answered")

\* Every record handed to the store is the one built from the request's own
\* body, its own clock reading and its own random draws, under the lifetime
\* the handler was constructed with.
RecordsFromOwnInputs ==
    \A i \in CallIndexes :
        LET r == storeCalls[i].req
        IN storeCalls[i].clientInfo
               = ClientInfo(SchemaParse(reqBody[r]).value, reads[r].uuid,
                            reads[r].hex, reads[r].nowMs,
                            clientRegistrationHandler(options)
                                .clientSecretExpirySeconds)

\* A step leaves the calls made so far, and the inputs of the requests that
\* made them, as they are, and a call it adds is built from the calling
\* request's own inputs.
StepKeepsRecordsOwn ==
    /\ \A r \in Reqs :
           pc[r] # "start" => reads'[r] = reads[r] /\ reqBody'[r] = reqBody[r]
    /\ \/ storeCalls' = storeCalls
       \/ /\ Len(storeCalls') = Len(storeCalls) + 1
          /\ SubSeq(storeCalls', 1, Len(storeCalls)) = storeCalls
          /\ LET call == storeCalls'[Len(storeCalls')]
                 r == call.req
             IN call.clientInfo
                    = ClientInfo(SchemaParse(reqBody'[r]).value,
                                 reads'[r].uuid, reads'[r].hex,
                                 reads'[r].nowMs,
                                 clientRegistrationHandler(options)
                                     .clientSecretExpirySeconds)

\* C16: transactions share no mutable state in the handler: in every
\* interleaving the record a transaction hands to the store is determined by
\* its own input, clock reading and random draws, and no step changes the
\* handler's configuration (the store and the secret lifetime).
C16_NoSharedMutableState ==
    /\ RecordsFromOwnInputs
    /\ [][StepKeepsRecordsOwn /\ UNCHANGED <<options, handler>>]_vars

\* C16 witness: two transactions were in flight together and handed the
\* store records issued at different seconds.
C16_Witness ==
    \E r, q \in Reqs :
        /\ pc[r] = "persisting" /\ pc[q] = "persisting"
        /\ clientInfo[r].client_id_issued_at
               # clientInfo[q].client_id_issued_at

\* The four fields the server issues (lines 51-54).
IssuedKeys ==
    {"client_id", "client_secret", "client_id_issued_at",
     "client_secret_expires_at"}

\* Metadata objects that carry fields named like the issued ones.
MetadataWithIssuedNames ==
    {[redirect_uris |-> "https://example.com/cb",
      client_id |-> "chosen-by-client"],
     [redirect_uris |-> "https://example.com/cb",
      token_endpoint_auth_method |-> "none",
      client_id |-> "chosen-by-client",
      client_secret |-> "chosen-by-client",
      client_id_issued_at |-> 7,
      client_secret_expires_at |-> 7]}

\* The record info carries the server's values in the four issued fields and
\* agrees with metadata m on every other field, and has no further field.
IssuedOver(info, m, uuid, hex, nowMs, lifetime) ==
    /\ DOMAIN info = DOMAIN m \cup IssuedKeys
    /\ \A k \in DOMAIN m \ IssuedKeys : info[k] = m[k]
    /\ info.client_id = uuid
    /\ info.client_secret
           = (IF Get(m, "token_endpoint_auth_method") # "none" THEN hex
              ELSE Undefined)
    /\ info.client_id_issued_at = nowMs \div 1000
    /\ info.client_secret_expires_at
           = (IF lifetime > 0 THEN nowMs \div 1000 + lifetime ELSE 0)

\* The lifetimes a handler may be constructed with.
Lifetimes ==
    {clientRegistrationHandler(o).clientSecretExpirySeconds : o \in Options}

\* The object literal of lines 49-55 applied to metadata that has fields
\* named like the issued ones: the issued values win.
IssuedNamesOverridden ==
    \A m \in MetadataWithIssuedNames, u \in UUIDs, h \in HexSecrets,
          t \in ClockReadings, l \in Lifetimes :
        IssuedOver(ClientInfo(m, u, h, t, l), m, u, h, t, l)

\* C17: the record handed to the store agrees with the validated metadata on
\* every field but client_id, client_secret, client_id_issued_at and
\* client_secret_expires_at, and these four carry the server-issued values,
\* also for metadata that has fields of those names.
C17_OnlyIssuedFieldsDiffer ==
    /\ \A i \in CallIndexes :
           LET r == storeCalls[i].req
           IN IssuedOver(storeCalls[i].clientInfo, MetadataOfCall(i),
                         reads[r].uuid, reads[r].hex, reads[r].nowMs,
                         Lifetime)
    /\ IssuedNamesOverridden

\* C17 witness: a record was handed to the store for a body that carried its
\* own client_id, and another for a body that declared a method.
C17_Witness ==
    \E i, j \in CallIndexes :
        /\ Has(reqBody[storeCalls[i].req], "client_id")
        /\ storeCalls[i].clientInfo.client_id = reads[storeCalls[i].req].uuid
        /\ Has(MetadataOfCall(j), "token_endpoint_auth_method")
        /\ storeCalls[j].clientInfo.token_endpoint_auth_method
               = MetadataOfCall(j).token_endpoint_auth_method

\* C18: a 400 answer is sent only for requests whose validation failed, and
\* no record with an error key is ever passed to registerClient.
C18_BadRequestOnlyForInvalid ==
    /\ \A r \in Reqs :
           (pc[r] = "answered" /\ response[r].status = 400) => Invalid(r)
    /\ \A i \in CallIndexes : ~Has(storeCalls[i].clientInfo, "error")

\* C19: every failure raised by validation, of whatever kind, becomes the
\* 'invalid_client_metadata' result answered 400; a 500 answer is given only
\* to requests whose validation had succeeded.
C19_ValidationFailureNeverInternalError ==
    \A r \in Reqs :
        /\ Invalid(r)
           => /\ promise[r].state = "fulfilled"
              /\ promise[r].value.error = "invalid_client_metadata"
              /\ promise[r].value.error_description = SchemaError(reqBody[r])
              /\ pc[r] = "answered" => response[r].status = 400
        /\ (pc[r] = "answered" /\ response[r].status = 500) => Validated(r)

\* C19 witness: two bodies that fail validation with different errors have
\* both been answered.
C19_Witness ==
    \E r, q \in Reqs :
        /\ Invalid(r) /\ pc[r] = "answered"
        /\ Invalid(q) /\ pc[q] = "answered"
        /\ validated[r].error # validated[q].error

\* C20: in every record handed to the store client_secret_expires_at is 0 or
\* later than client_id_issued_at; a negative lifetime gives 0, as lifetime 0
\* does, never an expiry before the issuance.
C20_ExpiryZeroOrAfterIssuance ==
    \A i \in CallIndexes :
        LET info == storeCalls[i].clientInfo
        IN /\ \/ info.client_secret_expires_at = 0
              \/ info.client_secret_expires_at > info.client_id_issued_at
           /\ Lifetime < 0 => info.client_secret_expires_at = 0

\* C20 witness: under a negative lifetime a record was issued after second 0.
C20_Witness ==
    /\ handler.router = "ready" /\ Lifetime < 0
    /\ \E i \in CallIndexes :
           /\ storeCalls[i].clientInfo.client_id_issued_at > 0
           /\ storeCalls[i].clientInfo.client_secret_expires_at = 0

\* Part of C18 that holds: no record handed to the store has an error key.
NoErrorKeyHandedToStore ==
    \A i \in CallIndexes : ~Has(storeCalls[i].clientInfo, "error")

====
